---------------------------- MODULE Spec2Model ----------------------------
(***************************************************************************)
(* A model of aocprep (src/src/main.rs): the fixture extractor parse_tests *)
(* over parsed HTML trees, and the run orchestrator (main, get_inputs,     *)
(* get_tests, copy_skeleton) over a day folder, a config file and a remote *)
(* site.                                                                   *)
(***************************************************************************)
EXTENDS Integers, Sequences, FiniteSets, TLC

VARIABLES
    html,       \* parse_tests: the parsed document handed to the extractor
    result,     \* parse_tests: its return value, NoResult before the call
    day_name,   \* RunContext.day_name, as its characters
    cfg,        \* the state of base_folder/aoc.toml
    skel,       \* the state of skeleton/Cargo.toml
    files,      \* the day folder: path -> content, for the paths that exist
    active,     \* the instances of the tool that run
    runs,       \* invocations started so far
    pc,         \* per instance: where its invocation stands
    entry,      \* per instance: the operation its invocation entered by
    tests,      \* per instance: get_tests' local tests
    idx,        \* per instance: get_tests' loop index i
    body,       \* per instance: get_inputs' local input
    stack,      \* per instance: the open calls of copy_dir_recursive
    arg,        \* per instance: the arguments of the copy_dir_recursive call being entered
    outcome,    \* per instance: what its invocation returned
    effects,    \* per instance: requests issued and files touched by its invocation, in order
    raced       \* some write found its target already there

parseVars == <<html, result>>
envVars == <<day_name, cfg, skel, active>>
localVars == <<tests, idx, body, stack, arg>>
orchVars == <<day_name, cfg, skel, files, active, runs, pc, entry, tests, idx, body,
              stack, arg, outcome, effects, raced>>
vars == <<html, result, day_name, cfg, skel, files, active, runs, pc, entry, tests, idx,
          body, stack, arg, outcome, effects, raced>>

(***************************************************************************)
(* Bounds of the model.                                                    *)
(***************************************************************************)
MaxNodes == 4       \* nodes of an enumerated document
MaxRuns == 3        \* invocations of the tool in one behaviour

(***************************************************************************)
(* The document tree Html::parse_document builds (main.rs:140).  A         *)
(* document is the sequence of its nodes in document order; each node      *)
(* names its parent by position, 0 being the container above every node    *)
(* (the body of the page).  Elements carry a tag name, text nodes a string.*)
(* The HTML tree builder merges adjacent text, so no two neighbouring      *)
(* siblings are both text; the documents are those of well-nested markup,  *)
(* for which the order the nodes were created in is the document order.    *)
(***************************************************************************)
Tags == {"pre", "code", "em"}
Texts == {"a", "b"}

Element(tag, parent) == [kind |-> "element", name |-> tag, text |-> "", parent |-> parent]
TextNode(s, parent) == [kind |-> "text", name |-> "", text |-> s, parent |-> parent]

RECURSIVE Ancestors(_, _)
Ancestors(d, i) == IF i = 0 THEN {} ELSE {d[i].parent} \cup Ancestors(d, d[i].parent)

\* The nodes a next node in document order may hang under: the last node
\* (when it is an element) and the chain above it.
OpenNodes(d) ==
    IF Len(d) = 0 THEN {0}
    ELSE Ancestors(d, Len(d)) \cup (IF d[Len(d)].kind = "element" THEN {Len(d)} ELSE {})

NextNodes(d) ==
    { Element(t, p) : t \in Tags, p \in OpenNodes(d) }
    \cup { TextNode(s, p) : s \in Texts,
                            p \in { q \in OpenNodes(d) :
                                      ~(Len(d) > 0 /\ d[Len(d)].kind = "text"
                                        /\ d[Len(d)].parent = q) } }

\* The documents of at most n nodes.
RECURSIVE DocsUpTo(_)
DocsUpTo(n) ==
    IF n = 0 THEN {<<>>}
    ELSE LET shorter == DocsUpTo(n - 1)
         IN  shorter \cup UNION { { Append(d, x) : x \in NextNodes(d) } :
                                    d \in { c \in shorter : Len(c) = n - 1 } }

\* The page of test_parse_tests (main.rs:151-166): a paragraph, the example
\* block, and a paragraph with two inline code elements.
TestPage ==
    << Element("p", 0),
       TextNode("For example, consider the following horizontal positions:", 1),
       Element("pre", 0),
       Element("code", 3),
       TextNode("16,1,2,0,4,2,7,1,2,14", 4),
       Element("p", 0),
       TextNode("This means there's a crab with horizontal position ", 6),
       Element("code", 6),
       TextNode("16", 8),
       TextNode(", a crab with horizontal position ", 6),
       Element("code", 6),
       TextNode("1", 11),
       TextNode(", and so on.", 6) >>

\* A page with two example blocks, the second split by inline markup, and a
\* page with none.
TwoBlockPage ==
    << Element("pre", 0),
       Element("code", 1),
       TextNode("1,2", 2),
       Element("p", 0),
       Element("code", 4),
       TextNode("x", 5),
       Element("pre", 0),
       Element("code", 7),
       TextNode("3", 8),
       Element("em", 8),
       TextNode("4", 10),
       TextNode("5", 8) >>

EmptyPage == << Element("p", 0), TextNode("No examples today.", 1) >>

Pages == {TestPage, TwoBlockPage, EmptyPage}

(***************************************************************************)
(* parse_tests (main.rs:139-147).                                          *)
(***************************************************************************)
\* Mutant of SelectorMatches: the descendant combinator "pre code".
SelectorMatches_Descendant(d, i) ==
    /\ d[i].kind = "element"
    /\ d[i].name = "code"
    /\ \E a \in Ancestors(d, i) \ {0} : d[a].kind = "element" /\ d[a].name = "pre"

\* Selector::parse("pre>code") (main.rs:141): a code element whose parent
\* is a pre element.
SelectorMatches(d, i) ==
    /\ d[i].kind = "element"
    /\ d[i].name = "code"
    /\ d[i].parent # 0
    /\ d[d[i].parent].kind = "element"
    /\ d[d[i].parent].name = "pre"

\* document.select(&selector) (main.rs:142-143): the matching elements, in
\* the order the nodes are visited, from node i on.
RECURSIVE SelectFrom(_, _)
SelectFrom(d, i) ==
    IF i > Len(d) THEN <<>>
    ELSE IF SelectorMatches(d, i) THEN <<i>> \o SelectFrom(d, i + 1)
    ELSE SelectFrom(d, i + 1)

\* Mutant of Select: the matches collected last to first.
Select_Reversed(d) ==
    LET s == SelectFrom(d, 1) IN [k \in 1..Len(s) |-> s[Len(s) + 1 - k]]

Select(d) == SelectFrom(d, 1)

\* el.text() (main.rs:144): the text nodes below element e, from node i on,
\* in document order.
RECURSIVE TextFrom(_, _, _)
TextFrom(d, e, i) ==
    IF i > Len(d) THEN <<>>
    ELSE IF d[i].kind = "text" /\ e \in Ancestors(d, i)
         THEN <<d[i].text>> \o TextFrom(d, e, i + 1)
    ELSE TextFrom(d, e, i + 1)

ElementText(d, e) == TextFrom(d, e, e + 1)

\* Itertools::join (main.rs:144).
RECURSIVE Join(_, _)
Join(frags, sep) ==
    IF Len(frags) = 0 THEN ""
    ELSE IF Len(frags) = 1 THEN frags[1]
    ELSE frags[1] \o sep \o Join(Tail(frags), sep)

\* Mutant of TextOfElement: the fragments joined with a space.
TextOfElement_Spaced(d, e) == Join(ElementText(d, e), " ")

\* .map(|el| el.text().join("")) (main.rs:144)
TextOfElement(d, e) == Join(ElementText(d, e), "")

\* .map(..).collect() (main.rs:144-145)
MapText(d, els) == [k \in 1..Len(els) |-> TextOfElement(d, els[k])]

Ok(v) == [ok |-> TRUE, val |-> v]
NoResult == [ok |-> FALSE, val |-> <<>>]

parse_tests(d) == Ok(MapText(d, Select(d)))

(***************************************************************************)
(* The run orchestrator.  One day folder, one config file and one skeleton *)
(* per behaviour; every step below is one call the code makes on the       *)
(* filesystem or the network, with the pure code around it.                *)
(***************************************************************************)
Procs == {1, 2}

\* Outcomes of an invocation (anyhow::Result, or a panic).
\* ctx is the context message of the error, cause what failed below it, and
\* at the step the invocation ended in.
Running == [status |-> "running", ctx |-> "", cause |-> "", at |-> ""]
Success == [status |-> "ok", ctx |-> "", cause |-> "", at |-> ""]
Err(ctx, cause) == [status |-> "err", ctx |-> ctx, cause |-> cause, at |-> ""]
Panic(cause) == [status |-> "panic", ctx |-> "", cause |-> cause, at |-> ""]

\* Folder names the tool is run on.
DayNames ==
    { <<"d", "a", "y", "0", "7">>, <<"d", "a", "y", "7">>, <<"d", "a", "y">>,
      <<"d", "a">>, <<"d", "a", "y", "x">>, <<"d", "a", "y", "-", "1">>,
      <<"a", "b", "c", "0", "7">>, <<"d", "a", "y", "+", "7">> }

Digits == <<"0", "1", "2", "3", "4", "5", "6", "7", "8", "9">>
IsDigit(c) == \E k \in 1..Len(Digits) : Digits[k] = c
DigitVal(c) == (CHOOSE k \in 1..Len(Digits) : Digits[k] = c) - 1

RECURSIVE DecimalValue(_)
DecimalValue(ds) ==
    IF Len(ds) = 0 THEN 0
    ELSE 10 * DecimalValue(SubSeq(ds, 1, Len(ds) - 1)) + DigitVal(ds[Len(ds)])

RECURSIVE Decimal(_)
Decimal(n) == IF n < 10 THEN Digits[n + 1] ELSE Decimal(n \div 10) \o Digits[(n % 10) + 1]

NoNumber == [ok |-> FALSE, val |-> 0]

\* str::parse::<usize> (main.rs:25): empty, a lone sign, or any non-digit
\* is an error; one leading "+" is accepted, "-" is not.  (Names here are
\* too short to overflow usize.)
ParseUsize(s) ==
    IF Len(s) = 0 THEN NoNumber
    ELSE IF Len(s) = 1 /\ s[1] \in {"+", "-"} THEN NoNumber
    ELSE LET ds == IF s[1] = "+" THEN Tail(s) ELSE s
         IN  IF \A k \in 1..Len(ds) : IsDigit(ds[k])
             THEN [ok |-> TRUE, val |-> DecimalValue(ds)]
             ELSE NoNumber

PrefixLen == 3

\* RunContext::day_number (main.rs:23-27): the slice day_name[3..] panics
\* when the name is shorter than three bytes.
day_number(name) ==
    IF Len(name) < PrefixLen THEN [out |-> Panic("slice index out of range"), val |-> 0]
    ELSE LET r == ParseUsize(SubSeq(name, PrefixLen + 1, Len(name)))
         IN  IF r.ok THEN [out |-> Success, val |-> r.val]
             ELSE [out |-> Err("Unable to parse day number from " \o Join(name, ""),
                               "parse"),
                   val |-> 0]

\* RunContext::aoc_config (main.rs:33-38)
CfgStates == {"ok", "missing", "malformed"}
aoc_config(c) ==
    IF c = "ok" THEN Success
    ELSE IF c = "missing" THEN Err("Error reading config file aoc.toml", "io")
    ELSE Err("Parsing config file", "toml")

Year == "2021"

\* retrieve_aoc (main.rs:41-59): the URL, and the ways the request fails:
\* send()?, error_for_status() with its context, text()?.
Url(n, postfix) == "https://adventofcode.com/" \o Year \o "/day/" \o Decimal(n) \o postfix

NotAvailable == "Input not available (too soon?)"

\* Mutant of RetrieveErrors: the context attached to every failure of the chain.
RetrieveErrors_AllContext ==
    { Err(NotAvailable, "send"), Err(NotAvailable, "status"), Err(NotAvailable, "body") }

RetrieveErrors ==
    { Err("", "send"), Err(NotAvailable, "status"), Err("", "body") }

InputBody == "3,4,3,1,2"

\* The filesystem.
NoFiles == [path \in {} |-> ""]
Dir == "<dir>"
Exists(f, path) == path \in DOMAIN f
Put(f, path, content) == (path :> content) @@ f
DayFolder == "."

\* fs::write / fs::copy: done, refused, or the file created (or truncated)
\* and the writing failed.
WriteResults(f, path, content) ==
    { [files |-> Put(f, path, content), ok |-> TRUE],
      [files |-> f, ok |-> FALSE],
      [files |-> Put(f, path, ""), ok |-> FALSE] }

\* Mutant of Digit2: the index written without padding.
Digit2_NoPad(i) == Decimal(i)

Digit2(i) == IF i < 10 THEN "0" \o Decimal(i) ELSE Decimal(i)

\* format!("test{:02}.txt", i) (main.rs:177)
TestName(i) == "test" \o Digit2(i) \o ".txt"
InputName == "input.txt"

\* The skeleton folder: its entries by folder, and the content of its files.
SkelStates == {"package", "nopackage", "invalid"}
SkelChildren(dir) ==
    IF dir = "" THEN {"Cargo.toml", "src"}
    ELSE IF dir = "src" THEN {"main.rs"}
    ELSE {}
SkelIsDir(path) == path = "src"
PathJoin(dir, name) == IF dir = "" THEN name ELSE dir \o "/" \o name
SkelPaths == {"Cargo.toml", "src", "src/main.rs"}
SkelContent(path) == IF SkelIsDir(path) THEN Dir ELSE "skeleton:" \o path
Manifest(name) == "[package] name = " \o name

Effect(op, kind, what) == [op |-> op, kind |-> kind, arg |-> what]

Entries == {"scaffold", "fetch", "get_inputs", "get_tests"}
EntryPc(e) ==
    IF e = "scaffold" THEN "copy_skeleton"
    ELSE IF e = "fetch" THEN "main_config"
    ELSE e

\* An invocation ends.
Finish(p, out) ==
    /\ pc' = [pc EXCEPT ![p] = "done"]
    /\ outcome' = [outcome EXCEPT ![p] = [out EXCEPT !.at = pc[p]]]

Goto(p, label) ==
    /\ pc' = [pc EXCEPT ![p] = label]
    /\ outcome' = outcome

\* main (main.rs:198-227), its dispatch; and the operations entered on
\* their own.  The fetching operations run inside the day folder.
main_start(p) ==
    /\ pc[p] \in {"idle", "done"}
    /\ runs < MaxRuns
    /\ runs' = runs + 1
    /\ \E e \in Entries :
          /\ e # "scaffold" => Exists(files, DayFolder)
          /\ entry' = [entry EXCEPT ![p] = e]
          /\ pc' = [pc EXCEPT ![p] = EntryPc(e)]
    /\ outcome' = [outcome EXCEPT ![p] = Running]
    /\ effects' = [effects EXCEPT ![p] = <<>>]
    /\ tests' = [tests EXCEPT ![p] = <<>>]
    /\ idx' = [idx EXCEPT ![p] = 0]
    /\ body' = [body EXCEPT ![p] = ""]
    /\ stack' = [stack EXCEPT ![p] = <<>>]
    /\ arg' = arg
    /\ UNCHANGED <<parseVars, envVars, files, raced>>

\* main.rs:222  run.aoc_config()?
main_config(p) ==
    /\ pc[p] = "main_config"
    /\ IF aoc_config(cfg).status = "ok"
       THEN Goto(p, "get_inputs")
       ELSE Finish(p, aoc_config(cfg))
    /\ UNCHANGED <<parseVars, envVars, localVars, files, runs, entry, effects, raced>>

\* get_inputs returned Ok: main.rs:223 goes on to get_tests.
main_after_get_inputs(p) ==
    IF entry[p] = "fetch" THEN Goto(p, "get_tests") ELSE Finish(p, Success)

\* Mutant of get_inputs_check: no look at the file before retrieving.
get_inputs_check_NoCheck(p) ==
    /\ pc[p] = "get_inputs"
    /\ Goto(p, "gi_retrieve")
    /\ UNCHANGED <<parseVars, envVars, localVars, files, runs, entry, effects, raced>>

\* get_inputs (main.rs:62-67)
get_inputs_check(p) ==
    /\ pc[p] = "get_inputs"
    /\ IF Exists(files, InputName)
       THEN main_after_get_inputs(p)
       ELSE Goto(p, "gi_retrieve")
    /\ UNCHANGED <<parseVars, envVars, localVars, files, runs, entry, effects, raced>>

\* get_inputs (main.rs:69): the arguments left to right, then the request.
get_inputs_retrieve(p) ==
    /\ pc[p] = "gi_retrieve"
    /\ LET c == aoc_config(cfg)
           n == day_number(day_name)
       IN  IF c.status # "ok"
           THEN Finish(p, c) /\ UNCHANGED <<effects, body>>
           ELSE IF n.out.status # "ok"
           THEN Finish(p, n.out) /\ UNCHANGED <<effects, body>>
           ELSE /\ effects' = [effects EXCEPT
                                 ![p] = Append(@, Effect("get_inputs", "GET", Url(n.val, "/input")))]
                /\ \/ \E e \in RetrieveErrors : Finish(p, e) /\ body' = body
                   \/ Goto(p, "gi_write") /\ body' = [body EXCEPT ![p] = InputBody]
    /\ UNCHANGED <<parseVars, envVars, tests, idx, stack, arg, files, runs, entry, raced>>

\* Mutant of get_inputs_write: the result of the write dropped.
get_inputs_write_Swallow(p) ==
    /\ pc[p] = "gi_write"
    /\ effects' = [effects EXCEPT ![p] = Append(@, Effect("get_inputs", "write", InputName))]
    /\ raced' = (raced \/ Exists(files, InputName))
    /\ \E w \in WriteResults(files, InputName, body[p]) :
          /\ files' = w.files
          /\ main_after_get_inputs(p)
    /\ UNCHANGED <<parseVars, envVars, localVars, runs, entry>>

\* get_inputs (main.rs:70-72)
get_inputs_write(p) ==
    /\ pc[p] = "gi_write"
    /\ effects' = [effects EXCEPT ![p] = Append(@, Effect("get_inputs", "write", InputName))]
    /\ raced' = (raced \/ Exists(files, InputName))
    /\ \E w \in WriteResults(files, InputName, body[p]) :
          /\ files' = w.files
          /\ IF w.ok THEN main_after_get_inputs(p) ELSE Finish(p, Err("", "io"))
    /\ UNCHANGED <<parseVars, envVars, localVars, runs, entry>>

\* get_tests (main.rs:173-174): the arguments, the request, parse_tests.
get_tests_retrieve(p) ==
    /\ pc[p] = "get_tests"
    /\ LET c == aoc_config(cfg)
           n == day_number(day_name)
       IN  IF c.status # "ok"
           THEN Finish(p, c) /\ UNCHANGED <<effects, tests>>
           ELSE IF n.out.status # "ok"
           THEN Finish(p, n.out) /\ UNCHANGED <<effects, tests>>
           ELSE /\ effects' = [effects EXCEPT
                                 ![p] = Append(@, Effect("get_tests", "GET", Url(n.val, "")))]
                /\ \/ \E e \in RetrieveErrors : Finish(p, e) /\ tests' = tests
                   \/ \E page \in Pages :
                         /\ Goto(p, "gt_loop")
                         /\ tests' = [tests EXCEPT ![p] = parse_tests(page).val]
    /\ UNCHANGED <<parseVars, envVars, idx, body, stack, arg, files, runs, entry, raced>>

\* Mutant of get_tests_next: every fixture written, present or not.
get_tests_next_NoCheck(p) ==
    /\ pc[p] = "gt_loop"
    /\ IF idx[p] = Len(tests[p]) THEN Finish(p, Success) ELSE Goto(p, "gt_write")
    /\ UNCHANGED <<parseVars, envVars, localVars, files, runs, entry, effects, raced>>

\* get_tests (main.rs:176-180, 185): the loop, up to the write.
get_tests_next(p) ==
    /\ pc[p] = "gt_loop"
    /\ IF idx[p] = Len(tests[p])
       THEN Finish(p, Success) /\ idx' = idx
       ELSE IF Exists(files, TestName(idx[p]))
       THEN Goto(p, "gt_loop") /\ idx' = [idx EXCEPT ![p] = @ + 1]
       ELSE Goto(p, "gt_write") /\ idx' = idx
    /\ UNCHANGED <<parseVars, envVars, tests, body, stack, arg, files, runs, entry, effects,
                   raced>>

\* get_tests (main.rs:182)
get_tests_write(p) ==
    /\ pc[p] = "gt_write"
    /\ effects' = [effects EXCEPT
                     ![p] = Append(@, Effect("get_tests", "write", TestName(idx[p])))]
    /\ raced' = (raced \/ Exists(files, TestName(idx[p])))
    /\ \E w \in WriteResults(files, TestName(idx[p]), tests[p][idx[p] + 1]) :
          /\ files' = w.files
          /\ IF w.ok
             THEN Goto(p, "gt_loop") /\ idx' = [idx EXCEPT ![p] = @ + 1]
             ELSE Finish(p, Err("", "io")) /\ idx' = idx
    /\ UNCHANGED <<parseVars, envVars, tests, body, stack, arg, runs, entry>>

\* Mutant of copy_skeleton_check: the skeleton copied whether or not the day
\* folder is there.
copy_skeleton_check_NoCheck(p) ==
    /\ pc[p] = "copy_skeleton"
    /\ Goto(p, "copy_enter")
    /\ arg' = [arg EXCEPT ![p] = [dir |-> "", expand |-> TRUE]]
    /\ UNCHANGED <<parseVars, envVars, tests, idx, body, stack, files, runs, entry, effects,
                   raced>>

\* copy_skeleton (main.rs:123-136), up to the call of copy_dir_recursive.
copy_skeleton_check(p) ==
    /\ pc[p] = "copy_skeleton"
    /\ IF Exists(files, DayFolder)
       THEN Finish(p, Success) /\ arg' = arg
       ELSE /\ Goto(p, "copy_enter")
            /\ arg' = [arg EXCEPT ![p] = [dir |-> "", expand |-> TRUE]]
    /\ UNCHANGED <<parseVars, envVars, tests, idx, body, stack, files, runs, entry, effects,
                   raced>>

DstPath(dir) == IF dir = "" THEN DayFolder ELSE dir

\* copy_dir_recursive (main.rs:102-103): create_dir_all(dst)?, read_dir(src)?
copy_dir_recursive_enter(p) ==
    /\ pc[p] = "copy_enter"
    /\ LET dst == DstPath(arg[p].dir)
           made == Put(files, dst, Dir)
       IN  /\ effects' = [effects EXCEPT
                            ![p] = Append(@, Effect("copy_skeleton", "mkdir", dst))]
           /\ \/ /\ Finish(p, Err("", "io"))
                 /\ UNCHANGED <<files, stack>>
              \/ /\ Exists(files, dst) => files[dst] = Dir
                 /\ files' = made
                 /\ \/ Finish(p, Err("", "io")) /\ stack' = stack
                    \/ /\ Goto(p, "copy_entry")
                       /\ stack' = [stack EXCEPT
                                      ![p] = Append(@, [dir |-> arg[p].dir,
                                                        todo |-> SkelChildren(arg[p].dir),
                                                        expand |-> arg[p].expand])]
    /\ UNCHANGED <<parseVars, envVars, tests, idx, body, arg, runs, entry, raced>>

\* expand_cargo_toml (main.rs:75-94): the manifest read and parsed, its
\* package name set (unwrap panics without a package table), and written.
expand_cargo_toml(f, path) ==
    {[files |-> f, out |-> Err("Unable to read skeleton/Cargo.toml", "io"), wrote |-> FALSE]}
    \cup
    IF skel = "invalid"
    THEN {[files |-> f, out |-> Err("While reading skeleton/Cargo.toml", "toml"),
           wrote |-> FALSE]}
    ELSE IF skel = "nopackage"
    THEN {[files |-> f, out |-> Panic("unwrap on None"), wrote |-> FALSE]}
    ELSE { [files |-> w.files,
            out |-> IF w.ok THEN Success ELSE Err("", "io"),
            wrote |-> TRUE] : w \in WriteResults(f, path, Manifest(Join(day_name, ""))) }

\* fs::copy (main.rs:116)
CopyFile(f, path) ==
    { [files |-> w.files,
       out |-> IF w.ok THEN Success ELSE Err("", "io"),
       wrote |-> TRUE] : w \in WriteResults(f, path, SkelContent(path)) }

\* copy_dir_recursive (main.rs:103-119): one turn of the loop over the
\* entries of src, in the order read_dir yields them; the return when none
\* is left.
copy_dir_recursive_entry(p) ==
    /\ pc[p] = "copy_entry"
    /\ LET top == stack[p][Len(stack[p])]
           rest == SubSeq(stack[p], 1, Len(stack[p]) - 1)
       IN  IF top.todo = {}
           THEN /\ stack' = [stack EXCEPT ![p] = rest]
                /\ IF Len(rest) = 0 THEN Finish(p, Success) ELSE Goto(p, "copy_entry")
                /\ UNCHANGED <<files, effects, arg>>
           ELSE \E e \in top.todo :
                  LET path == PathJoin(top.dir, e)
                      left == Append(rest, [top EXCEPT !.todo = @ \ {e}])
                  IN  \/ /\ Finish(p, Err("", "io"))
                         /\ UNCHANGED <<files, effects, arg, stack>>
                      \/ /\ SkelIsDir(path)
                         /\ stack' = [stack EXCEPT ![p] = left]
                         /\ arg' = [arg EXCEPT ![p] = [dir |-> path, expand |-> FALSE]]
                         /\ Goto(p, "copy_enter")
                         /\ UNCHANGED <<files, effects>>
                      \/ /\ ~SkelIsDir(path)
                         /\ \E r \in (IF top.expand /\ e = "Cargo.toml"
                                      THEN expand_cargo_toml(files, path)
                                      ELSE CopyFile(files, path)) :
                               /\ files' = r.files
                               /\ effects' = [effects EXCEPT
                                    ![p] = IF r.wrote
                                           THEN Append(@, Effect("copy_skeleton", "write", path))
                                           ELSE @]
                               /\ IF r.out.status = "ok"
                                  THEN Goto(p, "copy_entry") /\ stack' = [stack EXCEPT ![p] = left]
                                  ELSE Finish(p, r.out) /\ stack' = stack
                         /\ arg' = arg
    /\ UNCHANGED <<parseVars, envVars, tests, idx, body, runs, entry, raced>>

(***************************************************************************)
(* The specifications: one instance of the tool run again and again, and   *)
(* one or two instances run side by side.                                  *)
(***************************************************************************)
\* The day folder, scaffolded or made by hand, before any fetch.
EmptyFolder == Put(NoFiles, DayFolder, Dir)

InitOrch(names, cfgs, skels, folders, instances) ==
    /\ day_name \in names
    /\ cfg \in cfgs
    /\ skel \in skels
    /\ files \in folders
    /\ active \in instances
    /\ runs = 0
    /\ pc = [p \in Procs |-> "idle"]
    /\ entry = [p \in Procs |-> "fetch"]
    /\ tests = [p \in Procs |-> <<>>]
    /\ idx = [p \in Procs |-> 0]
    /\ body = [p \in Procs |-> ""]
    /\ stack = [p \in Procs |-> <<>>]
    /\ arg = [p \in Procs |-> [dir |-> "", expand |-> TRUE]]
    /\ outcome = [p \in Procs |-> Running]
    /\ effects = [p \in Procs |-> <<>>]
    /\ raced = FALSE

Init ==
    /\ html = <<>>
    /\ result = NoResult
    /\ InitOrch(DayNames, CfgStates, SkelStates,
                {NoFiles, EmptyFolder, Put(EmptyFolder, InputName, InputBody)}, {{1}})

InitConc ==
    /\ html = <<>>
    /\ result = NoResult
    /\ InitOrch({<<"d", "a", "y", "0", "7">>}, {"ok"}, {"package"}, {EmptyFolder},
                {{1}, {1, 2}})

Next ==
    \/ \E p \in active : main_start(p)
    \/ \E p \in active : main_config(p)
    \/ \E p \in active : get_inputs_check(p)
    \/ \E p \in active : get_inputs_retrieve(p)
    \/ \E p \in active : get_inputs_write(p)
    \/ \E p \in active : get_tests_retrieve(p)
    \/ \E p \in active : get_tests_next(p)
    \/ \E p \in active : get_tests_write(p)
    \/ \E p \in active : copy_skeleton_check(p)
    \/ \E p \in active : copy_dir_recursive_enter(p)
    \/ \E p \in active : copy_dir_recursive_entry(p)

Spec == Init /\ [][Next]_vars

\* Side by side the instances work in a day folder that exists, where
\* copy_skeleton returns at its check.
NextConc ==
    \/ \E p \in active : main_start(p)
    \/ \E p \in active : main_config(p)
    \/ \E p \in active : get_inputs_check(p)
    \/ \E p \in active : get_inputs_retrieve(p)
    \/ \E p \in active : get_inputs_write(p)
    \/ \E p \in active : get_tests_retrieve(p)
    \/ \E p \in active : get_tests_next(p)
    \/ \E p \in active : get_tests_write(p)
    \/ \E p \in active : copy_skeleton_check(p)

SpecConc == InitConc /\ [][NextConc]_vars

(***************************************************************************)
(* The extractor applied to every document.                                *)
(***************************************************************************)
InitParse ==
    /\ html \in DocsUpTo(MaxNodes) \cup Pages
    /\ result = NoResult
    /\ day_name = <<"d", "a", "y", "0", "7">>
    /\ cfg = "ok"
    /\ skel = "package"
    /\ files = NoFiles
    /\ active = {}
    /\ runs = 0
    /\ pc = [p \in Procs |-> "idle"]
    /\ entry = [p \in Procs |-> "fetch"]
    /\ tests = [p \in Procs |-> <<>>]
    /\ idx = [p \in Procs |-> 0]
    /\ body = [p \in Procs |-> ""]
    /\ stack = [p \in Procs |-> <<>>]
    /\ arg = [p \in Procs |-> [dir |-> "", expand |-> TRUE]]
    /\ outcome = [p \in Procs |-> Running]
    /\ effects = [p \in Procs |-> <<>>]
    /\ raced = FALSE

call_parse_tests ==
    /\ result = NoResult
    /\ result' = parse_tests(html)
    /\ html' = html
    /\ UNCHANGED orchVars

NextParse == call_parse_tests

SpecParse == InitParse /\ [][NextParse]_vars

(***************************************************************************)
(* Properties of the extractor.                                            *)
(***************************************************************************)
Parsed == result # NoResult

IsCode(d, i) == d[i].kind = "element" /\ d[i].name = "code"

\* The code elements whose immediate parent is a pre element.
Qualifying(d) ==
    { i \in 1..Len(d) : IsCode(d, i) /\ d[i].parent # 0 /\ d[d[i].parent].name = "pre" }

NonQualifying(d) == { i \in 1..Len(d) : IsCode(d, i) } \ Qualifying(d)

\* The text nodes below node i.
TextsBelow(d, i) == { j \in 1..Len(d) : d[j].kind = "text" /\ i \in Ancestors(d, j) }

Max(S) == CHOOSE m \in S : \A x \in S : x <= m

\* The texts of the nodes of S, written one after the other in document order.
RECURSIVE Flush(_, _)
Flush(d, S) == IF S = {} THEN "" ELSE Flush(d, S \ {Max(S)}) \o d[Max(S)].text

RECURSIVE SumLen(_, _)
SumLen(d, S) == IF S = {} THEN 0 ELSE Len(d[Max(S)].text) + SumLen(d, S \ {Max(S)})

\* The k-th element of S from the top of the document.
Kth(S, k) == CHOOSE i \in S : Cardinality({ j \in S : j < i }) = k - 1

\* C1: for a document with N >= 0 code elements directly under a pre
\* element, parse_tests returns Ok with exactly N strings, the k-th being the
\* text of the k-th such element from the top; N = 0 gives the empty sequence.
C1_DocumentOrder ==
    Parsed =>
        /\ result.ok
        /\ Len(result.val) = Cardinality(Qualifying(html))
        /\ \A k \in 1..Len(result.val) :
              result.val[k] = Flush(html, TextsBelow(html, Kth(Qualifying(html), k)))
        /\ (Qualifying(html) = {} => result = Ok(<<>>))

C1_Witness ==
    /\ Parsed
    /\ Cardinality(Qualifying(html)) >= 2
    /\ result.val[1] # result.val[2]

C1_WitnessEmpty ==
    /\ Parsed
    /\ Qualifying(html) = {}
    /\ NonQualifying(html) # {}

\* C2: no returned string comes from a code element whose immediate parent
\* is not a pre element: the strings are as many as the code elements less
\* the non-qualifying ones, each the text of a qualifying element, and the
\* page of the regression test yields its one example block alone.
C2_NonMatchExclusion ==
    Parsed =>
        /\ Len(result.val) =
              Cardinality({ i \in 1..Len(html) : IsCode(html, i) })
                - Cardinality(NonQualifying(html))
        /\ \A k \in 1..Len(result.val) :
              \E i \in Qualifying(html) : result.val[k] = Flush(html, TextsBelow(html, i))
        /\ (\A i \in 1..Len(html) : IsCode(html, i) => i \in NonQualifying(html))
              => result.val = <<>>
        /\ (html = TestPage => result.val = <<"16,1,2,0,4,2,7,1,2,14">>)

\* A non-qualifying code element that holds text, below a pre element or not.
C2_Witness ==
    /\ Parsed
    /\ Len(result.val) = 1
    /\ Cardinality({ i \in NonQualifying(html) : TextsBelow(html, i) # {} }) >= 2

C2_WitnessNested ==
    /\ Parsed
    /\ \E i \in NonQualifying(html) :
          /\ TextsBelow(html, i) # {}
          /\ \E a \in Ancestors(html, i) \ {0} : html[a].name = "pre"

\* C3: the string returned for a qualifying element whose text is split
\* over several text nodes is those fragments in document order, written
\* flush: nothing between them, no markup.
C3_FlushConcatenation ==
    Parsed =>
        \A k \in 1..Len(result.val) :
            LET e == Kth(Qualifying(html), k)
                frags == TextsBelow(html, e)
            IN  Cardinality(frags) >= 2 =>
                   /\ result.val[k] = Flush(html, frags)
                   /\ Len(result.val[k]) = SumLen(html, frags)

C3_Witness ==
    /\ Parsed
    /\ \E k \in 1..Len(result.val) :
          LET e == Kth(Qualifying(html), k)
          IN  /\ Cardinality(TextsBelow(html, e)) >= 2
              /\ \E j \in TextsBelow(html, e) : html[j].parent # e
(***************************************************************************)
(* Properties of the orchestrator.                                         *)
(***************************************************************************)
Done(p) == pc[p] = "done"

EffectsOf(p, op, kind) ==
    { k \in 1..Len(effects[p]) : effects[p][k].op = op /\ effects[p][k].kind = kind }

\* What a step adds to the effects of p's invocation.
Added(p) ==
    IF Len(effects'[p]) > Len(effects[p])
    THEN { effects'[p][k] : k \in (Len(effects[p]) + 1)..Len(effects'[p]) }
    ELSE {}

Kept(path) == Exists(files', path) /\ files'[path] = files[path]

C4_Return(p) ==
    /\ files' = files
    /\ effects'[p] = effects[p]
    /\ IF entry[p] = "fetch"
       THEN pc'[p] = "get_tests" /\ outcome'[p] = outcome[p]
       ELSE pc'[p] = "done" /\ outcome'[p].status = "ok"

C4_Step ==
    Exists(files, InputName) =>
        /\ Kept(InputName)
        /\ \A p \in Procs :
              /\ \A e \in Added(p) : e.op # "get_inputs"
              /\ (pc[p] = "get_inputs" /\ pc'[p] # "get_inputs") => C4_Return(p)

\* C4: when input.txt exists, get_inputs returns success with no request,
\* whatever the config and the day name are, and input.txt stays as it is;
\* so once it exists no later call requests or rewrites it.
C4_IdempotentFetch == [][C4_Step]_vars

C4_Witness ==
    /\ Done(1)
    /\ entry[1] = "get_inputs"
    /\ outcome[1].status = "ok"
    /\ effects[1] = <<>>
    /\ cfg # "ok"
    /\ day_number(day_name).out.status # "ok"

TwoDigits(i) == Digits[(i \div 10) + 1] \o Digits[(i % 10) + 1]
FixtureFile(i) == "test" \o TwoDigits(i) \o ".txt"

InGetTests(p) == pc[p] \in {"get_tests", "gt_loop", "gt_write"}

C5_Step ==
    \A p \in Procs :
        InGetTests(p) =>
            /\ \A path \in DOMAIN files : Kept(path)
            /\ \A path \in DOMAIN files' \ DOMAIN files :
                  /\ idx[p] \in 0..(Len(tests[p]) - 1)
                  /\ path = FixtureFile(idx[p])
                  /\ \/ files'[path] = tests[p][idx[p] + 1]
                     \/ outcome'[p].status = "err"

C5_State ==
    /\ ~raced
    /\ \A p \in Procs :
          (Done(p) /\ outcome[p].status = "ok" /\ entry[p] \in {"fetch", "get_tests"}) =>
              /\ \A i \in 0..(Len(tests[p]) - 1) : Exists(files, FixtureFile(i))
              /\ \A k \in EffectsOf(p, "get_tests", "write") :
                    \E i \in 0..(Len(tests[p]) - 1) :
                        /\ effects[p][k].arg = FixtureFile(i)
                        /\ files[FixtureFile(i)] = tests[p][i + 1]
              /\ Len(tests[p]) = 0 => EffectsOf(p, "get_tests", "write") = {}

\* C5: get_tests writes fixture i to test<two digits of i>.txt for the
\* indices whose file is absent, never rewrites a file that exists and
\* touches no other file; a successful run leaves a file for every index,
\* and a page without fixtures writes nothing.
C5_FixtureFiles == C5_State /\ [][C5_Step /\ C5_State']_vars

\* A run that found test00.txt left by an earlier run on another page, kept
\* it and wrote test01.txt.
C5_Witness ==
    /\ Done(1)
    /\ outcome[1].status = "ok"
    /\ Len(tests[1]) = 2
    /\ files[FixtureFile(0)] # tests[1][1]
    /\ \E k \in EffectsOf(1, "get_tests", "write") : effects[1][k].arg = FixtureFile(1)

C5_WitnessEmpty ==
    /\ Done(1)
    /\ outcome[1].status = "ok"
    /\ entry[1] = "get_tests"
    /\ tests[1] = <<>>
    /\ EffectsOf(1, "get_tests", "GET") # {}

C6_Step ==
    \A p \in Procs :
        /\ (pc[p] = "copy_skeleton" /\ pc'[p] # "copy_skeleton" /\ Exists(files, DayFolder)) =>
              /\ files' = files
              /\ effects'[p] = effects[p]
              /\ pc'[p] = "done"
              /\ outcome'[p].status = "ok"
        /\ (pc[p] = "copy_skeleton" /\ pc'[p] # "copy_skeleton" /\ ~Exists(files, DayFolder)) =>
              pc'[p] = "copy_enter"

C6_State ==
    \A p \in Procs :
        (Done(p) /\ entry[p] = "scaffold" /\ outcome[p].status = "ok" /\ effects[p] # <<>>) =>
            /\ effects[p][1] = Effect("copy_skeleton", "mkdir", DayFolder)
            /\ Exists(files, DayFolder)
            /\ \A path \in SkelPaths :
                  /\ Exists(files, path)
                  /\ path # "Cargo.toml" => files[path] = SkelContent(path)
            /\ files["Cargo.toml"] = "[package] name = " \o Join(day_name, "")

\* C6: copy_skeleton copies the skeleton only when the day folder does not
\* exist: on an existing folder, empty or half filled, it returns success
\* and changes nothing; on a missing one it creates the folder and, when it
\* returns success, every entry of the skeleton is in it.
C6_ScaffoldOnlyIfAbsent == C6_State /\ [][C6_Step /\ C6_State']_vars

\* A scaffold run that skipped a folder an earlier failed copy left half filled.
C6_Witness ==
    /\ Done(1)
    /\ entry[1] = "scaffold"
    /\ outcome[1].status = "ok"
    /\ effects[1] = <<>>
    /\ Exists(files, "src")
    /\ ~Exists(files, "src/main.rs")

C6_WitnessCopied ==
    /\ Done(1)
    /\ entry[1] = "scaffold"
    /\ outcome[1].status = "ok"
    /\ effects[1] # <<>>

Failed(o) == o.status \in {"err", "panic"}

C7_Step ==
    \A p \in Procs :
        /\ (Failed(outcome'[p]) /\ ~Failed(outcome[p])) => pc'[p] = "done"
        /\ (Done(p) /\ Failed(outcome[p])) =>
              \/ effects'[p] = effects[p] /\ pc'[p] = "done" /\ outcome'[p] = outcome[p]
              \/ runs' = runs + 1 /\ effects'[p] = <<>>

C7_State ==
    \A p \in Procs :
        /\ Cardinality(EffectsOf(p, "get_inputs", "GET")) <= 1
        /\ Cardinality(EffectsOf(p, "get_tests", "GET")) <= 1
        /\ \A j, k \in EffectsOf(p, "get_inputs", "write") \cup EffectsOf(p, "get_tests", "write") :
              effects[p][j].arg = effects[p][k].arg => j = k
        /\ (entry[p] = "fetch" /\ cfg # "ok") =>
              /\ effects[p] = <<>>
              /\ Done(p) => (outcome[p].status = "err" /\ outcome[p].at = "main_config")
        /\ (Done(p) /\ Failed(outcome[p]) /\ outcome[p].at \in {"gi_retrieve", "gi_write"}) =>
              /\ EffectsOf(p, "get_tests", "GET") = {}
              /\ EffectsOf(p, "get_tests", "write") = {}
        /\ (EffectsOf(p, "get_tests", "GET") # {} /\ EffectsOf(p, "get_inputs", "GET") # {}) =>
              /\ EffectsOf(p, "get_inputs", "write") # {}
              /\ Exists(files, InputName)
              /\ files[InputName] = InputBody

\* C7: the first failing step ends the invocation: nothing is retried and
\* nothing runs after it.  In fetch mode a failed config load comes before
\* any request or write, and a failure in get_inputs leaves get_tests
\* without a request or a written fixture.
C7_FailFast == C7_State /\ [][C7_Step /\ C7_State']_vars

C7_Witness ==
    /\ Done(1)
    /\ entry[1] = "fetch"
    /\ outcome[1].status = "err"
    /\ outcome[1].at = "gi_write"
    /\ EffectsOf(1, "get_inputs", "GET") # {}

OpAt(label) == IF label = "gi_retrieve" THEN "get_inputs" ELSE "get_tests"

C8_Step ==
    \A p \in Procs :
        (outcome'[p].cause = "status" /\ outcome[p].status = "running") => files' = files

C8_State ==
    \A p \in Procs :
        (Done(p) /\ outcome[p].status = "err") =>
            /\ outcome[p].cause = "status" <=> outcome[p].ctx = NotAvailable
            /\ outcome[p].cause = "status" =>
                  /\ outcome[p].at \in {"gi_retrieve", "get_tests"}
                  /\ EffectsOf(p, OpAt(outcome[p].at), "write") = {}
                  /\ EffectsOf(p, OpAt(outcome[p].at), "GET") # {}

\* C8: a non-success HTTP status makes retrieve_aoc fail with the "not
\* available" message, which no other failure carries, and the operation
\* that asked (get_inputs or get_tests) leaves the day folder as it was.
C8_NotAvailable == C8_State /\ [][C8_Step /\ C8_State']_vars

C8_Witness ==
    /\ Done(1)
    /\ outcome[1].status = "err"
    /\ outcome[1].cause = "status"
    /\ outcome[1].ctx = NotAvailable
    /\ outcome[1].at = "gi_retrieve"
    /\ ~Exists(files, InputName)

\* The convention "day" followed by digits.
Conforms(name) ==
    /\ Len(name) > 3
    /\ SubSeq(name, 1, 3) = <<"d", "a", "y">>
    /\ \A k \in 4..Len(name) : name[k] \in {"0", "1", "2", "3", "4", "5", "6", "7", "8", "9"}

\* C9: the day number is the folder name less a fixed prefix, parsed as an
\* integer; on a name off the prefix+number convention the invocation, in
\* scaffold mode and in fetch mode, ends with the identity-parse error as
\* an error value, before any request.
C9_IdentityParseError ==
    \A p \in Procs :
        (Done(p) /\ entry[p] \in {"scaffold", "fetch"} /\ cfg = "ok" /\ ~Conforms(day_name)) =>
            /\ outcome[p].status = "err"
            /\ outcome[p].cause = "parse"
            /\ EffectsOf(p, "get_inputs", "GET") \cup EffectsOf(p, "get_tests", "GET") = {}

\* C10: the skip-if-exists checks are not atomic: a write finds its target
\* already there only when two instances run side by side; a single
\* instance, run after run, never does.
C10_RaceOnlyWhenConcurrent ==
    /\ raced => active = {1, 2}
    /\ active = {1} =>
          \A p \in Procs : \A k \in EffectsOf(p, "get_inputs", "write") :
              \A j \in EffectsOf(p, "get_inputs", "GET") : j < k

\* Both instances passed the check before either wrote: each has requested
\* the input and written input.txt.
C10_Witness ==
    /\ raced
    /\ \A p \in {1, 2} :
          /\ Done(p)
          /\ outcome[p].status = "ok"
          /\ entry[p] = "get_inputs"
          /\ EffectsOf(p, "get_inputs", "GET") # {}
          /\ EffectsOf(p, "get_inputs", "write") # {}

C10_WitnessTests ==
    /\ raced
    /\ \E i \in 0..1 : \A p \in {1, 2} :
          \E k \in EffectsOf(p, "get_tests", "write") : effects[p][k].arg = FixtureFile(i)

=============================================================================
